---- MODULE Spec2Model ----
(***************************************************************************)
(* funmap/plotting.py: the binned log-likelihood-ratio estimator.          *)
(*                                                                         *)
(* plot_pair_llr draws, for every RNA/protein feature pair, the 1-D        *)
(* density histogram of the RNA feature (plot_1d_llr), the 2-D smoothed    *)
(* log-likelihood-ratio surface (plot_2d_llr) and the 1-D histogram of the *)
(* protein feature.  The model keeps the table feature_df, the locals of   *)
(* plot_2d_llr, and the calls made on numpy and on the matplotlib axes.    *)
(*                                                                         *)
(* Floats are modelled as exact extended rationals <<num, den>>:           *)
(* den > 0 and gcd(num, den) = 1 for a finite value, <<0,0>> for NaN,      *)
(* <<1,0>> for +inf and <<-1,0>> for -inf.  Rounding is not modelled.      *)
(***************************************************************************)
EXTENDS Integers, Sequences, FiniteSets, TLC

\* ------------------------------------------------------------------ floats

NaN == <<0, 0>>
PInf == <<1, 0>>
NInf == <<-1, 0>>
Zero == <<0, 1>>
One == <<1, 1>>

Abs(n) == IF n < 0 THEN -n ELSE n

Sgn(n) == IF n < 0 THEN -1 ELSE IF n = 0 THEN 0 ELSE 1

RECURSIVE GCD(_, _)
GCD(a, b) == IF b = 0 THEN a ELSE GCD(b, a % b)

\* the float num/den; den = 0 gives NaN (0/0) or a signed infinity
Norm(num, den) ==
    IF den = 0 THEN <<Sgn(num), 0>>
    ELSE LET g == GCD(Abs(num), Abs(den))
             s == Sgn(den)
         IN  <<(s * num) \div g, (s * den) \div g>>

R(num, den) == Norm(num, den)

IsNaN(x) == x = NaN

IsFinite(x) == x[2] # 0

\* IEEE comparison: anything compared with NaN is false
RLt(x, y) ==
    IF IsNaN(x) \/ IsNaN(y) \/ x = y THEN FALSE
    ELSE IF x = NInf \/ y = PInf THEN TRUE
    ELSE IF x = PInf \/ y = NInf THEN FALSE
    ELSE x[1] * y[2] < y[1] * x[2]

RLe(x, y) == ~IsNaN(x) /\ ~IsNaN(y) /\ (x = y \/ RLt(x, y))

RAdd(x, y) ==
    IF IsNaN(x) \/ IsNaN(y) THEN NaN
    ELSE IF IsFinite(x) /\ IsFinite(y) THEN Norm(x[1] * y[2] + y[1] * x[2], x[2] * y[2])
    ELSE IF ~IsFinite(x) /\ ~IsFinite(y) THEN (IF x = y THEN x ELSE NaN)
    ELSE IF IsFinite(x) THEN y ELSE x

RSub(x, y) == RAdd(x, <<-y[1], y[2]>>)

RMul(x, y) ==
    IF IsNaN(x) \/ IsNaN(y) THEN NaN
    ELSE IF IsFinite(x) /\ IsFinite(y) THEN Norm(x[1] * y[1], x[2] * y[2])
    ELSE <<Sgn(x[1]) * Sgn(y[1]), 0>>

\* numpy's true division of floats: x/0 is NaN or a signed infinity (with a
\* RuntimeWarning), never an exception
RDiv(x, y) ==
    IF IsNaN(x) \/ IsNaN(y) THEN NaN
    ELSE IF IsFinite(x) /\ IsFinite(y) THEN Norm(x[1] * y[2], x[2] * y[1])
    ELSE IF ~IsFinite(x) /\ ~IsFinite(y) THEN NaN
    ELSE IF IsFinite(x) THEN Zero
    ELSE <<x[1] * (IF y[1] < 0 THEN -1 ELSE 1), 0>>

\* Python's builtin max(a, b): b replaces a only when b > a
PyMax(a, b) == IF RLt(a, b) THEN b ELSE a

\* np.log of one float, kept symbolic: the sign of ln(x) and its argument
NpLog(x) ==
    IF IsNaN(x) \/ RLt(x, Zero) THEN [kind |-> "nan", sign |-> 0, arg |-> x]
    ELSE IF x = Zero THEN [kind |-> "-inf", sign |-> -1, arg |-> x]
    ELSE IF x = PInf THEN [kind |-> "+inf", sign |-> 1, arg |-> x]
    ELSE [kind |-> "finite",
          sign |-> IF RLt(x, One) THEN -1 ELSE IF x = One THEN 0 ELSE 1,
          arg |-> x]

\* ------------------------------------------------------------------ pandas

\* feature_df.loc[:, cols]: the named columns, each row keeping its index
loc(df, cols) ==
    [i \in 1..Len(df) |-> [idx |-> i, row |-> [c \in cols |-> df[i][c]]]]

\* DataFrame.dropna(): drops every row holding a missing value in any column
dropna(df) ==
    SelectSeq(df, LAMBDA r : \A c \in DOMAIN r.row : ~IsNaN(r.row[c]))

\* df.loc[df['Class'] == label, cols]
loc_class(df, label, cols) ==
    LET sel == SelectSeq(df, LAMBDA r : r.row["Class"] = R(label, 1))
    IN  [i \in 1..Len(sel) |-> [idx |-> sel[i].idx, row |-> [c \in cols |-> sel[i].row[c]]]]

\* df[col].values
values(df, col) == [i \in 1..Len(df) |-> df[i].row[col]]

\* df.shape[0]
shape0(df) == Len(df)

index(df) == {df[i].idx : i \in 1..Len(df)}

\* ------------------------------------------------------------------- numpy

\* the range table of plot_1d_llr and plot_2d_llr
data_range == ("CC" :> <<-1, 1>>) @@ ("MR" :> <<0, 1>>)

\* np.linspace(lo, hi, bins + 1): the bin edges, numbered 0..bins
linspace(range, bins) ==
    [k \in 0..bins |-> R(range[1] * bins + k * (range[2] - range[1]), bins)]

\* np.diff(edges): the width of bin k
diff(edges, k) == RSub(edges[k], edges[k - 1])

\* np.searchsorted(edges, x, side='right'), with a value on the last edge put
\* in the last bin: 0 and bins + 1 are the outliers
bin_index(x, edges, bins) ==
    LET c == Cardinality({k \in 0..bins : RLe(edges[k], x)})
    IN  IF x = edges[bins] THEN c - 1 ELSE c

Cells(bins) == (1..bins) \X (1..bins)

\* np.histogram2d(x, y, bins=bins, range=[range, range], density=density)
histogram2d(x, y, bins, range, density) ==
    LET edges == linspace(range, bins)
        bx == [k \in 1..Len(x) |-> bin_index(x[k], edges, bins)]
        by == [k \in 1..Len(y) |-> bin_index(y[k], edges, bins)]
        hist == [c \in Cells(bins) |->
                    Cardinality({k \in 1..Len(x) : bx[k] = c[1] /\ by[k] = c[2]})]
        s == Cardinality({k \in 1..Len(x) : bx[k] \in 1..bins /\ by[k] \in 1..bins})
    IN  [h |-> [c \in Cells(bins) |->
                    IF density
                    THEN RDiv(RDiv(RDiv(R(hist[c], 1), diff(edges, c[1])),
                                   diff(edges, c[2])), R(s, 1))
                    ELSE R(hist[c], 1)],
         xedges |-> edges,
         yedges |-> edges]

\* np.histogram(a, bins=bins, range=range, density=True), as ax.hist calls it
histogram(a, bins, range) ==
    LET edges == linspace(range, bins)
        ba == [k \in 1..Len(a) |-> bin_index(a[k], edges, bins)]
        n == [i \in 1..bins |-> Cardinality({k \in 1..Len(a) : ba[k] = i})]
        s == Cardinality({k \in 1..Len(a) : ba[k] \in 1..bins})
    IN  [h |-> [i \in 1..bins |-> RDiv(RDiv(R(n[i], 1), diff(edges, i)), R(s, 1))],
         edges |-> edges]

\* np.max of a grid: NaN if any cell is NaN
np_max(h) ==
    IF \E c \in DOMAIN h : IsNaN(h[c]) THEN NaN
    ELSE CHOOSE m \in {h[c] : c \in DOMAIN h} : \A c \in DOMAIN h : RLe(h[c], m)

\* the sum of the cells of a grid
RECURSIVE SumOver(_, _)
SumOver(h, cells) ==
    IF cells = {} THEN Zero
    ELSE LET c == CHOOSE d \in cells : TRUE
         IN  RAdd(h[c], SumOver(h, cells \ {c}))

np_sum(h) == SumOver(h, DOMAIN h)

\* ------------------------------------------------------------------ inputs

\* rows of the table: at most MaxRows
MaxRows == 3

\* plot_pair_llr sets n_bins = 20; the grids of the model are scaled down to
\* PairBins bins an axis
PairBins == 3

\* the rows a table is drawn from: [Class, rna feature, protein feature].
\* -1/2 lies inside the CC range and outside the MR range, 1 is the last edge
\* of both; labels are 0, 1, another value (2) or missing; a missing value is NaN
Rows ==
    { [Class |-> R(0, 1), rna |-> R(1, 4),  pro |-> R(1, 4)],
      [Class |-> R(1, 1), rna |-> R(1, 4),  pro |-> R(1, 4)],
      [Class |-> R(0, 1), rna |-> R(-1, 2), pro |-> R(1, 1)],
      [Class |-> R(1, 1), rna |-> R(1, 1),  pro |-> R(-1, 2)],
      [Class |-> NaN,     rna |-> R(1, 4),  pro |-> R(1, 4)],
      [Class |-> R(0, 1), rna |-> NaN,      pro |-> R(1, 4)],
      [Class |-> R(1, 1), rna |-> R(1, 4),  pro |-> NaN],
      [Class |-> R(2, 1), rna |-> R(1, 4),  pro |-> R(1, 4)] }

Tables == UNION {[1..n -> Rows] : n \in 0..MaxRows}

\* the feature_type and n_bins arguments of a direct call of plot_1d_llr or
\* plot_2d_llr ("XX" has no entry in data_range)
FeatureTypes == {"CC", "MR", "XX"}
BinChoices == {1, 2}

\* ------------------------------------------------------------------- state

VARIABLES
    feature_df,     \* the table: a sequence of rows
    pc,             \* the statement about to run
    entry,          \* the function the caller called
    feature_type,   \* argument feature_type
    n_bins,         \* argument n_bins
    label,          \* plot_2d_llr: the loop variable of the running loop
    max_density,    \* plot_2d_llr local
    cnt,            \* plot_2d_llr local: label -> number of rows of the class
    cnt_pos_neg,    \* plot_2d_llr local: label -> count grid
    hh,             \* plot_2d_llr local: what the last ax.hist2d returned
    llr_vals,       \* plot_2d_llr local: the ratio grid
    fig,            \* what plot_2d_llr returns: the pcolormesh call
    hist_log        \* the histogram calls made for the current figure, in order

vars == <<feature_df, pc, entry, feature_type, n_bins, label, max_density,
          cnt, cnt_pos_neg, hh, llr_vals, fig, hist_log>>

None == <<>>

locals2d == <<label, max_density, cnt, cnt_pos_neg, hh, llr_vals, fig>>

Init ==
    /\ feature_df \in Tables
    /\ pc = "idle"
    /\ entry = "none"
    /\ feature_type = "CC"
    /\ n_bins = 1
    /\ label = 0
    /\ max_density = None
    /\ cnt = None
    /\ cnt_pos_neg = None
    /\ hh = None
    /\ llr_vals = None
    /\ fig = None
    /\ hist_log = <<>>

\* ------------------------------------------------------------ plot_1d_llr

\* faulty variant: rows dropped as plot_2d_llr drops them, on a missing label or a
\* missing value of either feature
cur_df_vals_rowwise(df, feature_name) ==
    LET cur_df == dropna(loc(df, {"Class", "rna", "pro"}))
    IN  [idx |-> index(cur_df), vals |-> values(cur_df, feature_name)]

\* the sample plot_1d_llr bins: the column's values that are not missing
cur_df_vals(df, feature_name) ==
    LET cur_df == dropna(loc(df, {feature_name}))
    IN  [idx |-> index(cur_df), vals |-> values(cur_df, feature_name)]

\* faulty variant: the range of 'MR' for every feature type
ax_hist_mr_range(df, feature_name, ft, bins, line) ==
    LET s == cur_df_vals(df, feature_name)
        r == histogram(s.vals, bins, data_range["MR"])
    IN  [fn |-> "ax.hist", line |-> line, column |-> feature_name, label |-> -1,
         idx |-> s.idx, x |-> s.vals, y |-> <<>>,
         bins |-> bins, range |-> data_range["MR"], density |-> TRUE,
         edges |-> r.edges, drawn |-> TRUE, vmax |-> None, h |-> r.h]

\* the ax.hist call of plot_1d_llr (the same for 'PRO' and 'RNA' up to the
\* orientation of the bars)
ax_hist(df, feature_name, ft, bins, line) ==
    LET s == cur_df_vals(df, feature_name)
        r == histogram(s.vals, bins, data_range[ft])
    IN  [fn |-> "ax.hist", line |-> line, column |-> feature_name, label |-> -1,
         idx |-> s.idx, x |-> s.vals, y |-> <<>>,
         bins |-> bins, range |-> data_range[ft], density |-> TRUE,
         edges |-> r.edges, drawn |-> TRUE, vmax |-> None, h |-> r.h]

\* the body of plot_1d_llr with the arguments given; the caller goes on at next
plot_1d_body(feature_name, ft, bins, line, next) ==
    IF ft \notin DOMAIN data_range
    THEN /\ pc' = "KeyError"
         /\ hist_log' = hist_log
    ELSE /\ hist_log' = Append(hist_log, ax_hist(feature_df, feature_name, ft, bins, line))
         /\ pc' = next

\* the caller calls plot_1d_llr(ax, feature_df, feature_name, feature_type,
\* data_type, n_bins) itself
Call_plot_1d_llr(ft, bins, data_type) ==
    /\ pc = "idle"
    /\ entry' = "plot_1d_llr"
    /\ feature_type' = ft
    /\ n_bins' = bins
    /\ IF data_type = "PRO"
       THEN plot_1d_body("pro", ft, bins, 196, "returned")
       ELSE plot_1d_body("rna", ft, bins, 206, "returned")
    /\ UNCHANGED <<feature_df, locals2d>>

\* plot_pair_llr calls plot_1d_llr for the RNA feature and, after plot_2d_llr,
\* for the protein feature
plot_1d_llr ==
    /\ pc \in {"1d_RNA", "1d_PRO"}
    /\ IF pc = "1d_PRO"
       THEN plot_1d_body("pro", feature_type, n_bins, 196, "savefig")
       ELSE plot_1d_body("rna", feature_type, n_bins, 206, "2d_enter")
    /\ UNCHANGED <<feature_df, entry, feature_type, n_bins, locals2d>>

\* ------------------------------------------------------------ plot_2d_llr

\* the rows of one class in the first loop
cur_df_density(df, lbl) ==
    loc_class(dropna(loc(df, {"Class", "rna", "pro"})), lbl, {"rna", "pro"})

\* faulty variant: the second loop without its dropna
cur_df_count_keep_na(df, lbl) ==
    loc_class(loc(df, {"Class", "rna", "pro"}), lbl, {"rna", "pro"})

\* the rows of one class in the second loop
cur_df_count(df, lbl) ==
    loc_class(dropna(loc(df, {"Class", "rna", "pro"})), lbl, {"rna", "pro"})

\* faulty variant: the class total taken from the count grid
class_total_of_grid(cur_df, hist) == np_sum(hist)[1]

\* cnt[label] = cur_df.shape[0]
class_total(cur_df, hist) == shape0(cur_df)

\* one histogram call of plot_2d_llr, as logged
hist2d_call(fn, line, lbl, cur_df, bins, ft, density, drawn, vmax) ==
    LET x == values(cur_df, "rna")
        y == values(cur_df, "pro")
        r == histogram2d(x, y, bins, data_range[ft], density)
    IN  [fn |-> fn, line |-> line, column |-> "rna,pro", label |-> lbl,
         idx |-> index(cur_df), x |-> x, y |-> y,
         bins |-> bins, range |-> data_range[ft], density |-> density,
         edges |-> r.xedges, drawn |-> drawn, vmax |-> vmax, h |-> r.h]

\* Python's int / int
py_div(a, b) == R(a, b)

\* faulty variant: the denominator without its smoothing term cnt[0]/cnt[1]
llr_cell_bare_denominator(c1, c0, n0, n1) ==
    RDiv(RDiv(RAdd(c1, One), c0), py_div(n1, n0))

\* faulty variant: the numerator without its smoothing term + 1
llr_cell_bare_numerator(c1, c0, n0, n1) ==
    RDiv(RDiv(c1, RAdd(c0, py_div(n0, n1))), py_div(n1, n0))

\* one cell of ((cnt_pos_neg[1] + 1)/(cnt_pos_neg[0] + cnt[0]/cnt[1]))/(cnt[1]/cnt[0])
llr_cell(c1, c0, n0, n1) ==
    RDiv(RDiv(RAdd(c1, One), RAdd(c0, py_div(n0, n1))), py_div(n1, n0))

\* the locals before the first loop
plot_2d_locals ==
    /\ cnt' = <<>>
    /\ cnt_pos_neg' = <<>>
    /\ max_density' = R(-1, 1)
    /\ label' = 0
    /\ hh' = None
    /\ llr_vals' = None
    /\ fig' = None
    /\ pc' = "density_pass"

\* the caller calls plot_2d_llr(ax, feature_df, feature_type, pair_name,
\* rna_feature, pro_feature, n_bins) itself
Call_plot_2d_llr(ft, bins) ==
    /\ pc = "idle"
    /\ entry' = "plot_2d_llr"
    /\ feature_type' = ft
    /\ n_bins' = bins
    /\ plot_2d_locals
    /\ UNCHANGED <<feature_df, hist_log>>

\* plot_pair_llr calls plot_2d_llr
plot_2d_llr_enter ==
    /\ pc = "2d_enter"
    /\ plot_2d_locals
    /\ UNCHANGED <<feature_df, entry, feature_type, n_bins, hist_log>>

\* one iteration of the first loop: the density grid of one class and the
\* running maximum
density_pass ==
    /\ pc = "density_pass"
    /\ IF feature_type \notin DOMAIN data_range
       THEN /\ pc' = "KeyError"
            /\ UNCHANGED <<label, max_density, hist_log>>
       ELSE LET cur_df == cur_df_density(feature_df, label)
                call == hist2d_call("np.histogram2d", 259, label, cur_df, n_bins,
                                    feature_type, TRUE, FALSE, None)
            IN  /\ max_density' = PyMax(max_density, np_max(call.h))
                /\ hist_log' = Append(hist_log, call)
                /\ IF label = 0
                   THEN /\ label' = 1
                        /\ pc' = pc
                   ELSE /\ label' = 0
                        /\ pc' = "count_pass"
    /\ UNCHANGED <<feature_df, entry, feature_type, n_bins,
                   cnt, cnt_pos_neg, hh, llr_vals, fig>>

\* one iteration of the second loop: the class total, the count grid and the
\* drawing of the density grid.  hh holds (h, xedges, yedges): Python's hh[1] and
\* hh[2] are hh[2] and hh[3] here
count_pass ==
    /\ pc = "count_pass"
    /\ LET cur_df == cur_df_count(feature_df, label)
           hist == hist2d_call("np.histogram2d", 271, label, cur_df, n_bins,
                               feature_type, FALSE, FALSE, None)
           draw == hist2d_call("ax.hist2d", 276, label, cur_df, n_bins,
                               feature_type, TRUE, TRUE, max_density)
       IN  /\ cnt' = (label :> class_total(cur_df, hist.h)) @@ cnt
           /\ cnt_pos_neg' = (label :> hist.h) @@ cnt_pos_neg
           /\ hh' = <<draw.h, draw.edges, draw.edges>>
           /\ hist_log' = hist_log \o <<hist, draw>>
    /\ IF label = 0
       THEN /\ label' = 1
            /\ pc' = pc
       ELSE /\ label' = label
            /\ pc' = "compute_llr"
    /\ UNCHANGED <<feature_df, entry, feature_type, n_bins,
                   max_density, llr_vals, fig>>

\* the ratio grid.  cnt[0]/cnt[1] and cnt[1]/cnt[0] divide Python ints: a zero
\* divisor raises ZeroDivisionError (the grid divided in between is numpy's and
\* is dropped with the exception)
compute_llr ==
    /\ pc = "compute_llr"
    /\ IF cnt[1] = 0 \/ cnt[0] = 0
       THEN /\ pc' = "ZeroDivisionError"
            /\ llr_vals' = llr_vals
       ELSE /\ llr_vals' = [c \in Cells(n_bins) |->
                              llr_cell(cnt_pos_neg[1][c], cnt_pos_neg[0][c], cnt[0], cnt[1])]
            /\ pc' = "draw_llr"
    /\ UNCHANGED <<feature_df, entry, feature_type, n_bins, label,
                   max_density, cnt, cnt_pos_neg, hh, fig, hist_log>>

\* ax.pcolormesh(hh[1], hh[2], np.transpose(np.log(llr_vals)), vmin=-4, vmax=4)
\* and the return of the mesh
draw_llr ==
    /\ pc = "draw_llr"
    /\ fig' = [X |-> hh[2], Y |-> hh[3],
               C |-> [c \in Cells(n_bins) |-> NpLog(llr_vals[<<c[2], c[1]>>])],
               vmin |-> -4, vmax |-> 4]
    /\ pc' = IF entry = "plot_pair_llr" THEN "1d_PRO" ELSE "returned"
    /\ UNCHANGED <<feature_df, entry, feature_type, n_bins, label,
                   max_density, cnt, cnt_pos_neg, hh, llr_vals, hist_log>>

\* ---------------------------------------------------------- plot_pair_llr

\* the caller calls plot_pair_llr(feature_df, output_dir, rp_pairs): n_bins and
\* the list of feature types, ['CC']
Call_plot_pair_llr ==
    /\ pc = "idle"
    /\ pc' = "pair_loop"
    /\ entry' = "plot_pair_llr"
    /\ n_bins' = PairBins
    /\ feature_type' = "CC"
    /\ UNCHANGED <<feature_df, locals2d, hist_log>>

\* the head of the loop over rp_pairs: a new figure for the next pair, if the
\* list holds one (every pair names the two feature columns of the table); the
\* locals of the last plot_2d_llr call are gone
pair_loop ==
    /\ pc = "pair_loop"
    /\ \E more \in BOOLEAN :
          IF more
          THEN /\ hist_log' = <<>>
               /\ label' = 0
               /\ max_density' = None
               /\ cnt' = None
               /\ cnt_pos_neg' = None
               /\ hh' = None
               /\ llr_vals' = None
               /\ fig' = None
               /\ pc' = "1d_RNA"
          ELSE /\ pc' = "returned"
               /\ UNCHANGED <<locals2d, hist_log>>
    /\ UNCHANGED <<feature_df, entry, feature_type, n_bins>>

\* the colorbar and plt.savefig
savefig ==
    /\ pc = "savefig"
    /\ pc' = "pair_loop"
    /\ UNCHANGED <<feature_df, entry, feature_type, n_bins, locals2d, hist_log>>

Next ==
    \/ \E ft \in FeatureTypes, bins \in BinChoices, dt \in {"RNA", "PRO"} :
          Call_plot_1d_llr(ft, bins, dt)
    \/ \E ft \in FeatureTypes, bins \in BinChoices : Call_plot_2d_llr(ft, bins)
    \/ Call_plot_pair_llr
    \/ plot_1d_llr
    \/ plot_2d_llr_enter
    \/ density_pass
    \/ count_pass
    \/ compute_llr
    \/ draw_llr
    \/ pair_loop
    \/ savefig

Spec == Init /\ [][Next]_vars

\* ------------------------------------------------------------ properties

\* the logged histogram calls of plot_2d_llr at a source line, for a class
Log2d(line, lbl) ==
    {k \in 1..Len(hist_log) : hist_log[k].line = line /\ hist_log[k].label = lbl}

\* row i of the table has no missing value in the label or in either feature
Complete(i) ==
    /\ ~IsNaN(feature_df[i]["Class"])
    /\ ~IsNaN(feature_df[i]["rna"])
    /\ ~IsNaN(feature_df[i]["pro"])

\* the complete rows labelled lbl
ClassRows(lbl) ==
    {i \in 1..Len(feature_df) : Complete(i) /\ feature_df[i]["Class"] = R(lbl, 1)}

\* the ratio grid has been computed by the running or finished plot_2d_llr
HasRatio == llr_vals # None

\* C1: with both classes non-empty the ratio expression raises nothing, and in
\* every cell the smoothed denominator c0 + n0/n1 and the prior ratio n1/n0 are
\* finite and non-zero, the ratio is finite and strictly positive, and the log
\* handed to pcolormesh is finite
C1_RatioFinitePositive ==
    /\ pc = "ZeroDivisionError" => (cnt[0] = 0 \/ cnt[1] = 0)
    /\ HasRatio =>
          /\ cnt[0] > 0 /\ cnt[1] > 0
          /\ \A c \in Cells(n_bins) :
                LET den == RAdd(cnt_pos_neg[0][c], py_div(cnt[0], cnt[1]))
                IN  /\ IsFinite(den) /\ den # Zero
                    /\ IsFinite(py_div(cnt[1], cnt[0])) /\ py_div(cnt[1], cnt[0]) # Zero
                    /\ IsFinite(llr_vals[c]) /\ RLt(Zero, llr_vals[c])
                    /\ fig # None => fig.C[<<c[2], c[1]>>].kind = "finite"

\* C1 witness: a returned surface with unequal class totals and a cell that
\* holds rows of class 1 and none of class 0
C1_Witness ==
    /\ fig # None
    /\ cnt[0] # cnt[1]
    /\ \E c \in Cells(n_bins) : cnt_pos_neg[0][c] = Zero /\ cnt_pos_neg[1][c] # Zero

\* C3: identical count grids and equal totals give ratio 1 and log 0 in every cell
C3_IdenticalClassesZeroLLR ==
    (HasRatio /\ cnt[0] = cnt[1] /\ cnt_pos_neg[0] = cnt_pos_neg[1]) =>
        \A c \in Cells(n_bins) :
            /\ llr_vals[c] = One
            /\ fig # None => (fig.C[c].kind = "finite" /\ fig.C[c].sign = 0)

\* C3 witness: a returned surface of two identical non-empty classes with an
\* occupied cell
C3_Witness ==
    /\ fig # None
    /\ cnt[0] = cnt[1]
    /\ cnt_pos_neg[0] = cnt_pos_neg[1]
    /\ \E c \in Cells(n_bins) : cnt_pos_neg[1][c] # Zero

\* the ratio of cell c after exchanging the two classes
SwappedRatio(c) == llr_cell(cnt_pos_neg[0][c], cnt_pos_neg[1][c], cnt[1], cnt[0])

PresentRows(col) == {i \in 1..Len(feature_df) : ~IsNaN(feature_df[i][col])}

\* the logged ax.hist calls of plot_1d_llr
Log1d == {k \in 1..Len(hist_log) : hist_log[k].fn = "ax.hist"}

HasTotals == DOMAIN cnt = {0, 1}

\* C2 as stated: once a class is known to be empty the call ends in an error
\* raised for the empty class, before the ratio expression is evaluated, and no
\* surface is returned
C2_EmptyClassError ==
    (HasTotals /\ (cnt[0] = 0 \/ cnt[1] = 0) /\ pc # "compute_llr") =>
        (pc = "EmptyClassError" /\ fig = None /\ llr_vals = None)

\* what the code does with an empty class: the ratio expression raises
\* ZeroDivisionError after both density grids were drawn, and neither a ratio
\* grid nor a surface exists
EmptyClassRaisesZeroDivision ==
    (HasTotals /\ (cnt[0] = 0 \/ cnt[1] = 0) /\ pc # "compute_llr") =>
        /\ pc = "ZeroDivisionError"
        /\ fig = None
        /\ llr_vals = None
        /\ Log2d(276, 0) # {} /\ Log2d(276, 1) # {}

\* C6 as stated: a histogram of an empty sample, of counts or of densities, is
\* zero in every cell
C6_EmptySampleAllZero ==
    \A k \in 1..Len(hist_log) :
        Len(hist_log[k].x) = 0 => \A c \in DOMAIN hist_log[k].h : hist_log[k].h[c] = Zero

\* what the code does with an empty sample: no call raises, a count grid is zero
\* in every cell and a density grid is NaN (0/0) in every cell
EmptySampleZeroOrNaN ==
    \A k \in 1..Len(hist_log) :
        Len(hist_log[k].x) = 0 =>
            \A c \in DOMAIN hist_log[k].h :
                hist_log[k].h[c] = (IF hist_log[k].density THEN NaN ELSE Zero)

\* the edges of k equal bins over [lo, hi]
EvenEdges(edges, lo, hi, bins) ==
    /\ DOMAIN edges = 0..bins
    /\ edges[0] = R(lo, 1)
    /\ edges[bins] = R(hi, 1)
    /\ \A k \in 1..bins : RSub(edges[k], edges[k - 1]) = R(hi - lo, bins)

\* C7: every histogram of the figure is taken over [-1, 1] for 'CC' and [0, 1]
\* for 'MR', with n_bins equal bins, whatever the data and the class; a call
\* with a feature type outside the table raises KeyError before any histogram
C7_SharedRangeAndBins ==
    /\ \A k \in 1..Len(hist_log) :
          LET e == hist_log[k]
              lo == IF feature_type = "CC" THEN -1 ELSE 0
          IN  /\ feature_type \in {"CC", "MR"}
              /\ e.range = <<lo, 1>>
              /\ e.bins = n_bins
              /\ EvenEdges(e.edges, lo, 1, n_bins)
              /\ DOMAIN e.h = (IF e.fn = "ax.hist" THEN 1..n_bins ELSE Cells(n_bins))
    /\ (pc # "idle" /\ feature_type \notin {"CC", "MR"}) =>
          /\ pc \in {"density_pass", "KeyError"}
          /\ hist_log = <<>>
          /\ fig = None
          /\ llr_vals = None
    /\ pc = "KeyError" => feature_type \notin {"CC", "MR"}

\* C7 witness: a finished plot_pair_llr figure with its two marginals and the
\* six histograms of plot_2d_llr over a table with rows of both classes
C7_Witness ==
    /\ pc = "savefig"
    /\ Len(hist_log) = 8
    /\ ClassRows(0) # {} /\ ClassRows(1) # {}

\* the logged histogram calls of plot_2d_llr
Log2dAll == {k \in 1..Len(hist_log) : hist_log[k].fn # "ax.hist"}

\* C8: in both loops a class is the complete rows carrying its label: a row
\* with a missing label or feature is in no class, the two feature sequences of
\* a class have its length, the density pass, the count pass and the drawing
\* see the same rows, every complete row labelled 0 or 1 is in exactly one
\* class, and n0 + n1 counts exactly those rows
C8_RowwiseDropThenPartition ==
    /\ \A k \in Log2dAll :
          LET e == hist_log[k]
          IN  /\ e.label \in {0, 1}
              /\ e.idx = ClassRows(e.label)
              /\ Len(e.x) = Cardinality(e.idx)
              /\ Len(e.y) = Len(e.x)
              /\ \A j \in Log2dAll :
                    hist_log[j].label = e.label =>
                        (hist_log[j].idx = e.idx /\ hist_log[j].x = e.x /\ hist_log[j].y = e.y)
    /\ \A lbl \in DOMAIN cnt : cnt[lbl] = Cardinality(ClassRows(lbl))
    /\ HasTotals =>
          /\ \A i \in 1..Len(feature_df) :
                Cardinality({lbl \in {0, 1} :
                                \E k \in Log2d(271, lbl) : i \in hist_log[k].idx})
                    = (IF Complete(i) /\ feature_df[i]["Class"] \in {R(0, 1), R(1, 1)}
                       THEN 1 ELSE 0)
          /\ cnt[0] + cnt[1] =
                Cardinality({i \in 1..Len(feature_df) :
                                Complete(i) /\ feature_df[i]["Class"] \in {R(0, 1), R(1, 1)}})

\* C8 witness: both passes done over a table with a complete row of a class, a
\* row of a class that misses a feature and a row that misses its label
C8_Witness ==
    /\ HasTotals
    /\ cnt[0] + cnt[1] > 0
    /\ \E i \in 1..Len(feature_df) :
          ~Complete(i) /\ feature_df[i]["Class"] \in {R(0, 1), R(1, 1)}
    /\ \E i \in 1..Len(feature_df) : IsNaN(feature_df[i]["Class"])

\* C9 as stated: when a class's density is drawn, both density grids have been
\* computed and the ceiling vmax = max_density is their largest cell: no cell
\* of either grid exceeds it, some cell attains it, and it is not negative
C9_SharedCeiling ==
    \A k \in 1..Len(hist_log) :
        hist_log[k].line = 276 =>
            LET v == hist_log[k].vmax
                dens == Log2d(259, 0) \cup Log2d(259, 1)
            IN  /\ Log2d(259, 0) # {} /\ Log2d(259, 1) # {}
                /\ v = max_density
                /\ RLe(Zero, v)
                /\ \A j \in dens : \A c \in Cells(n_bins) : RLe(hist_log[j].h[c], v)
                /\ \E j \in dens : \E c \in Cells(n_bins) : hist_log[j].h[c] = v

\* what the code does: both density grids are computed before either is drawn,
\* both drawings use the same ceiling, and the ceiling is the largest cell of
\* the grids that are not NaN, or -1 when both are NaN
CeilingSkipsNaNGrids ==
    \A k \in 1..Len(hist_log) :
        hist_log[k].line = 276 =>
            LET v == hist_log[k].vmax
                dens == Log2d(259, 0) \cup Log2d(259, 1)
                good == {j \in dens : \A c \in Cells(n_bins) : ~IsNaN(hist_log[j].h[c])}
            IN  /\ Log2d(259, 0) # {} /\ Log2d(259, 1) # {}
                /\ v = max_density
                /\ \A j \in dens \ good : \A c \in Cells(n_bins) : IsNaN(hist_log[j].h[c])
                /\ \A j \in good : \A c \in Cells(n_bins) : RLe(hist_log[j].h[c], v)
                /\ IF good = {} THEN v = R(-1, 1)
                   ELSE \E j \in good : \E c \in Cells(n_bins) : hist_log[j].h[c] = v

\* a value lies in the closed range of the feature type
InRange(x) ==
    /\ RLe(R(data_range[feature_type][1], 1), x)
    /\ RLe(x, R(data_range[feature_type][2], 1))

\* C10: a class total is the number of complete rows of the class; the cells of
\* its count grid sum to at most that, and to exactly that if and only if every
\* row of the class has both feature values inside the range
C10_TotalsCountOutOfRangeRows ==
    \A lbl \in DOMAIN cnt :
        LET inside == np_sum(cnt_pos_neg[lbl])
        IN  /\ cnt[lbl] = Cardinality(ClassRows(lbl))
            /\ RLe(inside, R(cnt[lbl], 1))
            /\ (inside = R(cnt[lbl], 1)) <=>
                  \A i \in ClassRows(lbl) :
                      InRange(feature_df[i]["rna"]) /\ InRange(feature_df[i]["pro"])

\* C10 witness: a class with a row inside the range and a row outside it
C10_Witness ==
    \E lbl \in DOMAIN cnt :
        /\ RLt(Zero, np_sum(cnt_pos_neg[lbl]))
        /\ RLt(np_sum(cnt_pos_neg[lbl]), R(cnt[lbl], 1))

====
